---- MODULE Spec2Model ----
(***************************************************************************)
(* Model of the retry queue (src/src/utils/retry_queue.py) and of the      *)
(* save_recipe handler (src/src/bot/discord_bot.py) of the Mealie Discord  *)
(* import bot.                                                             *)
(*                                                                         *)
(* Time is the wall clock read by datetime.now(), in minutes.  The clock   *)
(* advances in steps of TimeStep minutes; a scheduler scan, a queue call   *)
(* and a handler step take no model time.                                  *)
(***************************************************************************)
EXTENDS Integers, Sequences, FiniteSets, TLC

VARIABLES
    tasks,       \* RetryQueue.tasks: the dict, as the sequence of its values in insertion order
    running,     \* RetryQueue.running
    processor,   \* the task RetryQueue._processor_task refers to: "none", "alive", "cancelling" or "ended"
    now,         \* datetime.now(), minutes
    req,         \* the save_recipe handler invocations, by interaction id
    openai_api_key, \* settings.openai_api_key is set
    old_loops,   \* the loop tasks _processor_task referred to before start() replaced them, oldest first
    stopping,    \* the loop tasks that a stop() call in progress is awaiting
    mealie,      \* the Mealie backend: its tags (names, the id is the position) and the tag ids of the recipe created last
    client,      \* the MealieClient.create_recipe_from_url call in progress
    ensuring,    \* the _ensure_tag_exists calls that the handlers have in progress, by interaction id
    last         \* the operation that made the last step, with its arguments

vars == <<tasks, running, processor, now, req, openai_api_key, old_loops, stopping, mealie,
          client, ensuring, last>>

-----------------------------------------------------------------------------
(* Bounds of the model *)

MaxTime == 10
TimeStep == 5
AttemptCap == 4
MaxLoops == 3

-----------------------------------------------------------------------------
(* RetryStatus *)

PENDING == "pending"
RETRYING == "retrying"
SUCCESS == "success"
FAILED == "failed"

RetryStatus == {PENDING, RETRYING, SUCCESS, FAILED}

None == "None"

\* interaction.id of the incoming commands
InteractionIds == {1, 2}

\* f"recipe_{interaction.id}"
TaskIdOf(interaction_id) == <<"recipe_", interaction_id>>

TaskIds == {TaskIdOf(i) : i \in InteractionIds}

\* update_task_status is exercised on one key; the other key is a bystander
\* that add_task, remove_task and the scan act on
UpdateIds == {TaskIdOf(1)}

\* the (user_id, url) pairs the callers pass; a url is urlparse(url), the
\* scheme and the netloc of the string
CallArgs == {
    <<101, [scheme |-> "https", netloc |-> "example.com"]>>,
    <<102, [scheme |-> "ftp", netloc |-> "example.com"]>>,
    <<101, [scheme |-> "", netloc |-> ""]>>,
    <<102, [scheme |-> "https", netloc |-> ""]>>,
    <<101, [scheme |-> "", netloc |-> "example.com"]>> }

\* the queue is exercised with the urls that have a scheme and a host
AddArgs == {a \in CallArgs : a[2].scheme # "" /\ a[2].netloc # ""}

\* interaction.user.id of the callers
UserIds == {a[1] : a \in CallArgs}

Errors == {None, "boom"}

-----------------------------------------------------------------------------
(* RetryTask *)

max_attempts == 3

FirstRetryDelay == 5

delays == <<5, 15, 30>>

\* the dataclass constructor as add_task calls it: the other fields take their defaults
RetryTask(task_id, user_id, url, next_retry) ==
    [task_id |-> task_id, user_id |-> user_id, url |-> url,
     attempt |-> 0, max_attempts |-> max_attempts, next_retry |-> next_retry,
     status |-> PENDING, last_error |-> None]

should_retry_any_attempt(task, t) ==
    /\ task.status # SUCCESS
    /\ t >= task.next_retry

should_retry(task, t) ==
    /\ task.attempt < task.max_attempts
    /\ task.status # SUCCESS
    /\ t >= task.next_retry

\* delays[self.attempt] with the list indexed from 0
get_next_retry_delay_pre_increment(task) ==
    IF task.attempt - 1 < Len(delays) THEN delays[task.attempt] ELSE 30

get_next_retry_delay(task) ==
    IF task.attempt < Len(delays) THEN delays[task.attempt + 1] ELSE 30

-----------------------------------------------------------------------------
(* RetryQueue: the dict operations on the sequence of values *)

\* the position of the key in the dict, 0 when the key is absent
IndexOf(ts, task_id) ==
    IF \E k \in 1..Len(ts) : ts[k].task_id = task_id
    THEN CHOOSE k \in 1..Len(ts) : ts[k].task_id = task_id
    ELSE 0

HasTask(ts, task_id) == IndexOf(ts, task_id) # 0

get_task(ts, task_id) == ts[IndexOf(ts, task_id)]

\* self.tasks[task_id] = task: an existing key keeps its position
DictSet(ts, task_id, task) ==
    IF HasTask(ts, task_id)
    THEN [ts EXCEPT ![IndexOf(ts, task_id)] = task]
    ELSE Append(ts, task)

\* del self.tasks[task_id]
DictDel(ts, task_id) ==
    LET k == IndexOf(ts, task_id)
    IN  [j \in 1..(Len(ts) - 1) |-> IF j < k THEN ts[j] ELSE ts[j + 1]]

add_task_keeps_progress(ts, t, task_id, user_id, url) ==
    IF HasTask(ts, task_id)
    THEN DictSet(ts, task_id,
                 [get_task(ts, task_id) EXCEPT !.user_id = user_id, !.url = url])
    ELSE Append(ts, RetryTask(task_id, user_id, url, t + FirstRetryDelay))

add_task(ts, t, task_id, user_id, url) ==
    DictSet(ts, task_id, RetryTask(task_id, user_id, url, t + FirstRetryDelay))

get_user_tasks_newest_first(ts, user_id) ==
    LET sel == SelectSeq(ts, LAMBDA task : task.user_id = user_id)
    IN  [k \in 1..Len(sel) |-> sel[Len(sel) + 1 - k]]

\* [task for task in self.tasks.values() if task.user_id == user_id]
get_user_tasks(ts, user_id) == SelectSeq(ts, LAMBDA task : task.user_id = user_id)

remove_task(ts, task_id) ==
    IF HasTask(ts, task_id) THEN DictDel(ts, task_id) ELSE ts

\* one pass of the for loop of _process_queue over list(self.tasks.values())
scan_tasks_unbounded(ts, t) ==
    [k \in 1..Len(ts) |->
        IF should_retry_any_attempt(ts[k], t)
        THEN [ts[k] EXCEPT !.status = RETRYING]
        ELSE ts[k]]

scan_tasks(ts, t) ==
    [k \in 1..Len(ts) |->
        IF should_retry(ts[k], t)
        THEN [ts[k] EXCEPT !.status = RETRYING]
        ELSE ts[k]]

\* update_task_status on a task that exists
update_task_lost_increment(task, t, status, error) ==
    LET t1 == [task EXCEPT !.status = status,
                           !.attempt = IF task.status = RETRYING THEN @ ELSE @ + 1]
        t2 == IF error # None THEN [t1 EXCEPT !.last_error = error] ELSE t1
    IN  IF status = SUCCESS THEN t2
        ELSE IF status = FAILED /\ t2.attempt >= t2.max_attempts THEN t2
        ELSE IF status = PENDING
             THEN [t2 EXCEPT !.next_retry = t + get_next_retry_delay(t2)]
             ELSE t2

update_task(task, t, status, error) ==
    LET t1 == [task EXCEPT !.status = status, !.attempt = task.attempt + 1]
        t2 == IF error # None THEN [t1 EXCEPT !.last_error = error] ELSE t1
    IN  IF status = SUCCESS THEN t2
        ELSE IF status = FAILED /\ t2.attempt >= t2.max_attempts THEN t2
        ELSE IF status = PENDING
             THEN [t2 EXCEPT !.next_retry = t + get_next_retry_delay(t2)]
             ELSE t2

update_task_status_rearms_failed(ts, t, task_id, status, error) ==
    IF ~HasTask(ts, task_id) THEN ts
    ELSE LET u == update_task(get_task(ts, task_id), t, status, error)
         IN  DictSet(ts, task_id,
                     IF status = FAILED /\ u.attempt < u.max_attempts
                     THEN [u EXCEPT !.next_retry = t + get_next_retry_delay(u)]
                     ELSE u)

update_task_status(ts, t, task_id, status, error) ==
    IF ~HasTask(ts, task_id) THEN ts
    ELSE DictSet(ts, task_id, update_task(get_task(ts, task_id), t, status, error))

-----------------------------------------------------------------------------
(* MealieBot._handle_save_recipe_slash and the MealieClient calls it makes *)

\* an invocation of the handler that has not happened yet
NewRequest ==
    [pc |-> "new", user_id |-> 0, url |-> None, is_retry |-> FALSE,
     ack |-> None, slug |-> None, reason |-> None, outcome |-> None,
     steps |-> <<>>, objects |-> <<>>, ai_called |-> FALSE, ai_slug |-> None]

\* interaction.response.defer(): it returns, or raises NotFound or another HTTPException
DeferResults == {"ok", "NotFound", "HTTPException"}

\* the except branches of the defer: both add the task unless this is a redrive
defer_failed_requeues_redrive(ts, t, exc, interaction_id, user_id, url, is_retry) ==
    add_task(ts, t, TaskIdOf(interaction_id), user_id, url)

defer_failed_only_expired(ts, t, exc, interaction_id, user_id, url, is_retry) ==
    IF exc = "NotFound" /\ ~is_retry
    THEN add_task(ts, t, TaskIdOf(interaction_id), user_id, url)
    ELSE ts

defer_failed(ts, t, exc, interaction_id, user_id, url, is_retry) ==
    IF exc = "NotFound"
    THEN IF ~is_retry
         THEN add_task(ts, t, TaskIdOf(interaction_id), user_id, url)
         ELSE ts
    ELSE IF ~is_retry
         THEN add_task(ts, t, TaskIdOf(interaction_id), user_id, url)
         ELSE ts

is_valid_url_scheme_only(url) == url.scheme # ""

\* all([result.scheme, result.netloc])
is_valid_url(url) == url.scheme # "" /\ url.netloc # ""

\* the answers of POST /api/recipes/create/url: status and shape of the body
PrimaryResponses == {
    [status |-> 201, body |-> "quoted_slug"],
    [status |-> 201, body |-> "quoted_no_recipe"],
    [status |-> 201, body |-> "quoted_empty"],
    [status |-> 201, body |-> "unquoted"],
    [status |-> 400, body |-> "unquoted"],
    [status |-> 500, body |-> "unquoted"],
    [status |-> 0, body |-> "ClientError"] }

\* response_text.startswith('"') and response_text.endswith('"')
IsQuoted(body) == body \in {"quoted_slug", "quoted_no_recipe", "quoted_empty"}

\* response_text.strip('"')
StripQuotes(body) ==
    CASE body = "quoted_slug" -> "r1"
      [] body = "quoted_no_recipe" -> "no-recipe"
      [] body = "quoted_empty" -> ""
      [] OTHER -> body

\* an exception that leaves create_recipe_from_url: its class and the text of
\* its message before the colon
Raised(kind, message) == [kind |-> kind, slug |-> None, message |-> message, keys |-> {}]

\* the dict create_recipe_from_url returns, with its keys
Returned(slug) ==
    [kind |-> "created", slug |-> slug, message |-> None, keys |-> {"slug", "url", "status"}]

create_recipe_from_url(resp) ==
    IF resp.body = "ClientError" THEN Raised("ClientError", None)
    ELSE IF resp.status = 201 \/ resp.status = 200
    THEN IF IsQuoted(resp.body)
         THEN Returned(StripQuotes(resp.body))
         ELSE Raised("ValueError", "Unexpected response format")
    ELSE IF resp.status = 400
    THEN Raised("ValueError", "Invalid recipe URL or format")
    ELSE Raised("ValueError", "Failed to create recipe")

\* what GET /api/recipes/{slug} gives validate_recipe_complete
FetchResults ==
    {[ok |-> FALSE, name_len |-> 0, ingredients |-> 0, instructions |-> 0]} \cup
    [ok : {TRUE}, name_len : {3, 4}, ingredients : {0, 1}, instructions : {0, 1}]

validate_recipe_complete_ingredients_first(fetch) ==
    IF ~fetch.ok THEN <<FALSE, "Error validating recipe">>
    ELSE IF ~(fetch.ingredients > 0) THEN <<FALSE, "Recipe has no ingredients">>
    ELSE IF ~(fetch.instructions > 0) THEN <<FALSE, "Recipe has no instructions">>
    ELSE IF ~(fetch.name_len > 3) THEN <<FALSE, "Recipe has no valid name">>
    ELSE <<TRUE, "Recipe is complete">>

\* name_len is len(name.strip()), ingredients and instructions the lengths of the lists
validate_recipe_complete(fetch) ==
    IF ~fetch.ok THEN <<FALSE, "Error validating recipe">>
    ELSE IF ~(fetch.name_len > 3) THEN <<FALSE, "Recipe has no valid name">>
    ELSE IF ~(fetch.ingredients > 0) THEN <<FALSE, "Recipe has no ingredients">>
    ELSE IF ~(fetch.instructions > 0) THEN <<FALSE, "Recipe has no instructions">>
    ELSE <<TRUE, "Recipe is complete">>

\* what the page fetch and the AI call give parse_recipe_with_ai: recipe data
\* with a name and ingredients, data without one of them, an exception, or no
\* page content (the AI is then not called)
AiResults == {"ok", "missing_fields", "error", "no_page"}

\* the request to the AI service is sent when the key is set and the page was fetched
ai_service_called(key, r) == key /\ r # "no_page"

parse_recipe_with_ai_without_key(key, r) == r = "ok"

\* TRUE when parse_recipe_with_ai returns recipe data, FALSE when it returns None
parse_recipe_with_ai(key, r) ==
    IF ~key THEN FALSE
    ELSE r = "ok"

\* POST /api/recipes of create_recipe_from_ai_data: 2xx with a slug in the
\* body, 2xx with no slug in the body, or another status or an exception
AiCreateResults == {"slug", "no_slug", "none"}

\* the slug the backend gives the object it creates from the AI data
AiObject == "ai1"

\* the recipe object that POST /api/recipes/create/url leaves on the backend
primary_object(resp) ==
    IF resp.status \in {200, 201} /\ resp.body = "quoted_slug" THEN <<"r1">> ELSE <<>>

Finish(r, outcome) == [r EXCEPT !.pc = "returned", !.outcome = outcome]

Ran(r, step) == [r EXCEPT !.steps = Append(r.steps, step)]

-----------------------------------------------------------------------------
(* MealieClient: the tags of a recipe *)

MaxTags == 3

\* the tag names of the model: the two default tags and a second spelling of one
TagNames == {"Discord Import", "Verify", "verify"}

\* settings.default_recipe_tags is neither a string nor a list
DefaultTags == <<"Discord Import", "Verify">>

\* str.lower()
Lower(name) ==
    CASE name = "Discord Import" -> "discord import"
      [] name = "Verify" -> "verify"
      [] name = "verify" -> "verify"

\* the first tag of GET /api/organizers/tags with tag.get('name', '').lower() ==
\* tag_name.lower(): its position, 0 when there is none
FirstMatch(tags, tag_name) ==
    LET S == {k \in 1..Len(tags) : Lower(tags[k]) = Lower(tag_name)}
    IN  IF S = {} THEN 0 ELSE CHOOSE k \in S : \A l \in S : k <= l

\* answers to the GET of the tag list: 200, another status, an exception
LookupResults == {"ok", "non200", "raises"}

\* answers to the POST of a new tag: 200/201 with a JSON body, 200/201 with
\* another body, another status, an exception
CreateResults == {"json", "not_json", "rejected", "raises"}

NoTag == [id |-> 0, name |-> None]

\* _ensure_tag_exists(tag_name): the backend's tags after the call, the tag
\* object returned (NoTag for None; id 0 for the object made up from name and
\* slug, which has no id), and whether the create request was issued
ensure_tag_exists(tags, tag_name, lookup, create) ==
    LET k == IF lookup = "ok" THEN FirstMatch(tags, tag_name) ELSE 0
    IN  IF k # 0
        THEN [tags |-> tags, obj |-> [id |-> k, name |-> tags[k]], posted |-> FALSE]
        ELSE IF create = "json"
        THEN [tags |-> Append(tags, tag_name),
              obj |-> [id |-> Len(tags) + 1, name |-> tag_name], posted |-> TRUE]
        ELSE IF create = "not_json"
        THEN [tags |-> Append(tags, tag_name),
              obj |-> [id |-> 0, name |-> tag_name], posted |-> TRUE]
        ELSE [tags |-> tags, obj |-> NoTag, posted |-> TRUE]

\* all_tags_dict[tag['id']] = tag: the value of a key that exists is replaced
\* where it stands, a new key is added at the end
dict_set(d, entry) ==
    IF \E k \in 1..Len(d) : d[k].id = entry.id
    THEN [k \in 1..Len(d) |-> IF d[k].id = entry.id THEN entry ELSE d[k]]
    ELSE Append(d, entry)

RECURSIVE dict_update(_, _)
\* one 'for tag in ...' loop over all_tags_dict; an object without 'id' is left out
dict_update(d, entries) ==
    IF entries = <<>> THEN d
    ELSE dict_update(IF Head(entries).id = 0 THEN d ELSE dict_set(d, Head(entries)),
                     Tail(entries))

\* the tags of the recipe as the GET of the recipe gives them, and the tag
\* objects that _ensure_tag_exists returned: an entry keeps its id and which of
\* the two it is
RecipeEntries(current_tags) ==
    [k \in 1..Len(current_tags) |-> [id |-> current_tags[k], src |-> "recipe"]]

EnsuredEntries(tag_objects) ==
    [k \in 1..Len(tag_objects) |-> [id |-> tag_objects[k].id, src |-> "ensured"]]

merge_tags_keeps_both(current_tags, tag_objects) ==
    RecipeEntries(current_tags) \o
        SelectSeq(EnsuredEntries(tag_objects), LAMBDA e : e.id # 0)

\* updated_tags = list(all_tags_dict.values()): the existing tags of the
\* recipe first, then the ensured tags, by tag id
merge_tags(current_tags, tag_objects) ==
    dict_update(dict_update(<<>>, RecipeEntries(current_tags)), EnsuredEntries(tag_objects))

\* the ids of a list of tag entries
IdsOf(entries) == [k \in 1..Len(entries) |-> entries[k].id]

\* the tags the backend may give a recipe it creates from the 'tags' of the
\* request: none, one or two of its tags
AttachedTags(tags) ==
    ({<<>>} \cup {<<k>> : k \in 1..Len(tags)} \cup {<<k, l>> : k, l \in 1..Len(tags)})
        \ {<<k, k>> : k \in 1..Len(tags)}

NoResponse == [status |-> 0, body |-> None]

\* no _ensure_tag_exists call in progress
NoCall == [pc |-> "idle", name |-> None, lookup |-> None, posted |-> FALSE, after |-> 0]

IdleClient ==
    [pc |-> "idle", resp |-> NoResponse, slug |-> None, todo |-> <<>>,
     tag_objects |-> <<>>, current_tags |-> <<>>,
     result |-> Raised(None, None), tag_error |-> None, posts |-> 0]

-----------------------------------------------------------------------------
(* MealieClient.validate_recipe_data *)

MaxItems == 2

\* the strings of a recipe: the empty string, a blank one and one with text
Texts == {"", " ", "text"}

\* str.strip()
strip(t) == IF t = " " THEN "" ELSE t

\* the lists recipe_data.get('recipeInstructions', []) and
\* recipe_data.get('recipeIngredient', []) of at most MaxItems strings
TextLists == UNION {[1..n -> Texts] : n \in 0..MaxItems}

RecipeData == [name : Texts, recipeInstructions : TextLists, recipeIngredient : TextLists]

\* not items or all(not item.strip() for item in items)
missing(items) == items = <<>> \/ \A k \in 1..Len(items) : strip(items[k]) = ""

validate_recipe_data_title_first(require_instructions, require_ingredients, recipe_data) ==
    IF strip(recipe_data.name) = ""
    THEN <<FALSE, "Recipe is missing title">>
    ELSE IF require_instructions /\ missing(recipe_data.recipeInstructions)
    THEN <<FALSE, "Recipe is missing instructions">>
    ELSE IF require_ingredients /\ missing(recipe_data.recipeIngredient)
    THEN <<FALSE, "Recipe is missing ingredients">>
    ELSE <<TRUE, "Recipe is valid">>

validate_recipe_data(require_instructions, require_ingredients, recipe_data) ==
    IF require_instructions /\ missing(recipe_data.recipeInstructions)
    THEN <<FALSE, "Recipe is missing instructions">>
    ELSE IF require_ingredients /\ missing(recipe_data.recipeIngredient)
    THEN <<FALSE, "Recipe is missing ingredients">>
    ELSE IF strip(recipe_data.name) = ""
    THEN <<FALSE, "Recipe is missing title">>
    ELSE <<TRUE, "Recipe is valid">>

-----------------------------------------------------------------------------

Init ==
    /\ tasks = <<>>
    /\ running = FALSE
    /\ processor = "none"
    /\ now = 0
    /\ req = [i \in InteractionIds |-> NewRequest]
    /\ openai_api_key \in BOOLEAN
    /\ old_loops = <<>>
    /\ stopping = {}
    /\ mealie = [tags |-> <<>>, recipe_tags |-> <<>>]
    /\ client = IdleClient
    /\ ensuring = [i \in InteractionIds |-> NoCall]
    /\ last = [op |-> "init"]

-----------------------------------------------------------------------------
(* The queue's operations, called by any client of the queue *)

Start ==
    /\ IF ~running
       THEN running' = TRUE /\ processor' = "alive"
       ELSE UNCHANGED <<running, processor>>
    /\ last' = [op |-> "start"]
    /\ UNCHANGED <<tasks, now, req, openai_api_key, old_loops, stopping, mealie, client,
                   ensuring>>

Stop ==
    /\ running' = FALSE
    /\ processor' = IF processor = "alive" THEN "ended" ELSE processor
    /\ last' = [op |-> "stop"]
    /\ UNCHANGED <<tasks, now, req, openai_api_key, old_loops, stopping, mealie, client,
                   ensuring>>

AddTask(task_id, user_id, url) ==
    /\ tasks' = add_task(tasks, now, task_id, user_id, url)
    /\ last' = [op |-> "add_task", task_id |-> task_id, user_id |-> user_id, url |-> url,
                pre_status |-> IF HasTask(tasks, task_id)
                               THEN get_task(tasks, task_id).status ELSE None]
    /\ UNCHANGED <<running, processor, now, req, openai_api_key, old_loops, stopping, mealie,
                   client, ensuring>>

RemoveTask(task_id) ==
    /\ tasks' = remove_task(tasks, task_id)
    /\ last' = [op |-> "remove_task", task_id |-> task_id]
    /\ UNCHANGED <<running, processor, now, req, openai_api_key, old_loops, stopping, mealie,
                   client, ensuring>>

\* attempt has no upper limit in the code; the model stops calling at AttemptCap
UpdateStatus(task_id, status, error) ==
    /\ HasTask(tasks, task_id) => get_task(tasks, task_id).attempt < AttemptCap
    /\ tasks' = update_task_status(tasks, now, task_id, status, error)
    /\ last' = [op |-> "update_task_status", task_id |-> task_id, status |-> status,
                found |-> HasTask(tasks, task_id),
                pre_attempt |-> IF HasTask(tasks, task_id)
                                THEN get_task(tasks, task_id).attempt ELSE 0]
    /\ UNCHANGED <<running, processor, now, req, openai_api_key, old_loops, stopping, mealie,
                   client, ensuring>>

Tick_counts_attempt ==
    /\ running
    /\ processor = "alive"
    /\ tasks' = [k \in 1..Len(tasks) |->
                    IF should_retry(tasks[k], now)
                    THEN [tasks[k] EXCEPT !.status = RETRYING, !.attempt = @ + 1]
                    ELSE tasks[k]]
    /\ last' = [op |-> "tick",
                marked |-> {<<tasks[k].task_id, tasks[k].status>> :
                              k \in {j \in 1..Len(tasks) : tasks'[j] # tasks[j]}}]
    /\ UNCHANGED <<running, processor, now, req, openai_api_key, old_loops, stopping, mealie,
                   client, ensuring>>

\* one iteration of the while loop of _process_queue: the scan, then the sleep
Tick ==
    /\ running
    /\ processor = "alive"
    /\ tasks' = scan_tasks(tasks, now)
    /\ last' = [op |-> "tick",
                marked |-> {<<tasks[k].task_id, tasks[k].status>> :
                              k \in {j \in 1..Len(tasks) : tasks'[j] # tasks[j]}}]
    /\ UNCHANGED <<running, processor, now, req, openai_api_key, old_loops, stopping, mealie,
                   client, ensuring>>

TickError_ends_loop(j) ==
    /\ running
    /\ processor = "alive"
    /\ j \in 1..Len(tasks)
    /\ tasks' = [k \in 1..Len(tasks) |-> IF k < j THEN scan_tasks(tasks, now)[k] ELSE tasks[k]]
    /\ processor' = "ended"
    /\ last' = [op |-> "tick_error", at |-> j]
    /\ UNCHANGED <<running, now, req, openai_api_key, old_loops, stopping, mealie, client,
                   ensuring>>

\* an iteration of the while loop in which the scan raises an Exception at the
\* j-th task: the tasks before it are scanned, the except branch logs and
\* sleeps, and the while loop goes on
TickError(j) ==
    /\ running
    /\ processor = "alive"
    /\ j \in 1..Len(tasks)
    /\ tasks' = [k \in 1..Len(tasks) |-> IF k < j THEN scan_tasks(tasks, now)[k] ELSE tasks[k]]
    /\ last' = [op |-> "tick_error", at |-> j]
    /\ UNCHANGED <<running, processor, now, req, openai_api_key, old_loops, stopping, mealie,
                   client, ensuring>>

\* get_user_tasks reads the dict and returns the list; the queue is unchanged
GetUserTasks(user_id) ==
    /\ last' = [op |-> "get_user_tasks", user_id |-> user_id,
                result |-> get_user_tasks(tasks, user_id)]
    /\ UNCHANGED <<tasks, running, processor, now, req, openai_api_key, old_loops, stopping,
                   mealie, client, ensuring>>

AdvanceTime ==
    /\ now < MaxTime
    /\ now' = now + TimeStep
    /\ last' = [op |-> "time"]
    /\ UNCHANGED <<tasks, running, processor, req, openai_api_key, old_loops, stopping, mealie,
                   client, ensuring>>

Next ==
    \/ Start
    \/ Stop
    \/ \E task_id \in TaskIds, a \in AddArgs : AddTask(task_id, a[1], a[2])
    \/ \E task_id \in TaskIds : RemoveTask(task_id)
    \/ \E task_id \in UpdateIds, status \in RetryStatus, error \in Errors :
            UpdateStatus(task_id, status, error)
    \/ Tick
    \/ \E j \in 1..Len(tasks) : TickError(j)
    \/ AdvanceTime

Spec == Init /\ [][Next]_vars

\* the registry under its callers, with the reads of get_user_tasks
RegistryNext ==
    \/ \E task_id \in TaskIds, a \in AddArgs : AddTask(task_id, a[1], a[2])
    \/ \E task_id \in TaskIds : RemoveTask(task_id)
    \/ \E task_id \in UpdateIds, status \in RetryStatus, error \in Errors :
            UpdateStatus(task_id, status, error)
    \/ \E user_id \in UserIds : GetUserTasks(user_id)
    \/ AdvanceTime

RegistrySpec == Init /\ [][RegistryNext]_vars

\* the scheduler loop over a registry that is filled and updated
ScanNext ==
    \/ Start
    \/ Stop
    \/ \E task_id \in TaskIds, a \in AddArgs : AddTask(task_id, a[1], a[2])
    \/ \E task_id \in UpdateIds, status \in RetryStatus :
            UpdateStatus(task_id, status, None)
    \/ Tick
    \/ \E j \in 1..Len(tasks) : TickError(j)
    \/ AdvanceTime

\* the loop task is scheduled again after every sleep
QueueLiveSpec == Init /\ [][ScanNext]_vars /\ WF_vars(Tick)

-----------------------------------------------------------------------------
(* start() and stop() step by step: stop() suspends at its await, and the    *)
(* loop tasks that start() created run between the calls.  A loop task is    *)
(* named by its position: the tasks start() replaced, then                   *)
(* _processor_task.                                                          *)

CurrentLoop == Len(old_loops) + 1

LoopIds == 1..(MaxLoops + 1)

LoopStateIn(old, current, id) == IF id <= Len(old) THEN old[id] ELSE current

LoopState(id) == LoopStateIn(old_loops, processor, id)

\* start(): a new loop task replaces _processor_task when the queue is not running
StartCall ==
    /\ Len(old_loops) < MaxLoops
    /\ IF ~running
       THEN /\ running' = TRUE
            /\ processor' = "alive"
            /\ old_loops' = IF processor = "none" THEN old_loops
                             ELSE Append(old_loops, processor)
       ELSE UNCHANGED <<running, processor, old_loops>>
    /\ last' = [op |-> "start_call", created |-> ~running]
    /\ UNCHANGED <<tasks, now, req, openai_api_key, stopping, mealie, client, ensuring>>

StopCall_no_cancel ==
    /\ running' = FALSE
    /\ IF processor = "none"
       THEN UNCHANGED stopping
       ELSE stopping' = stopping \cup {CurrentLoop}
    /\ last' = [op |-> "stop_call", loop |-> IF processor = "none" THEN 0 ELSE CurrentLoop]
    /\ UNCHANGED <<tasks, processor, now, req, openai_api_key, old_loops, mealie, client,
                   ensuring>>

\* stop() up to its await: the flag, the cancel of a task that is not done
StopCall ==
    /\ running' = FALSE
    /\ IF processor = "none"
       THEN UNCHANGED <<processor, stopping>>
       ELSE /\ processor' = IF processor = "alive" THEN "cancelling" ELSE processor
            /\ stopping' = stopping \cup {CurrentLoop}
    /\ last' = [op |-> "stop_call", loop |-> IF processor = "none" THEN 0 ELSE CurrentLoop]
    /\ UNCHANGED <<tasks, now, req, openai_api_key, old_loops, mealie, client, ensuring>>

\* a loop task resumes from its sleep: CancelledError is raised in it and it
\* breaks, or the while condition is false and it returns
LoopEnd(id) ==
    /\ id <= CurrentLoop
    /\ \/ LoopState(id) = "cancelling"
       \/ LoopState(id) = "alive" /\ ~running
    /\ IF id <= Len(old_loops)
       THEN old_loops' = [old_loops EXCEPT ![id] = "ended"] /\ UNCHANGED processor
       ELSE processor' = "ended" /\ UNCHANGED old_loops
    /\ last' = [op |-> "loop_end", loop |-> id]
    /\ UNCHANGED <<tasks, running, now, req, openai_api_key, stopping, mealie, client,
                   ensuring>>

StopReturn_no_await(id) ==
    /\ id \in stopping
    /\ stopping' = stopping \ {id}
    /\ last' = [op |-> "stop_return", loop |-> id]
    /\ UNCHANGED <<tasks, running, processor, now, req, openai_api_key, old_loops, mealie, client,
                   ensuring>>

\* the await of stop() completes when the task it awaits is done
StopReturn(id) ==
    /\ id \in stopping
    /\ LoopState(id) = "ended"
    /\ stopping' = stopping \ {id}
    /\ last' = [op |-> "stop_return", loop |-> id]
    /\ UNCHANGED <<tasks, running, processor, now, req, openai_api_key, old_loops, mealie, client,
                   ensuring>>

\* one iteration of the while loop in the loop task id
LoopTick(id) ==
    /\ id <= CurrentLoop
    /\ LoopState(id) = "alive"
    /\ running
    /\ tasks' = scan_tasks(tasks, now)
    /\ last' = [op |-> "loop_tick", loop |-> id,
                marked |-> {<<tasks[k].task_id, tasks[k].status>> :
                              k \in {j \in 1..Len(tasks) : tasks'[j] # tasks[j]}}]
    /\ UNCHANGED <<running, processor, now, req, openai_api_key, old_loops, stopping, mealie,
                   client, ensuring>>

LoopNext ==
    \/ StartCall
    \/ StopCall
    \/ \E id \in LoopIds : LoopEnd(id)
    \/ \E id \in LoopIds : StopReturn(id)
    \/ \E id \in LoopIds : LoopTick(id)
    \/ \E task_id \in TaskIds, a \in {b \in AddArgs : b[1] = 101} :
            AddTask(task_id, a[1], a[2])
    \/ AdvanceTime

LoopSpec == Init /\ [][LoopNext]_vars

-----------------------------------------------------------------------------
(* The bot: setup_hook, close, the save_recipe command and the scheduler *)

SetupHook ==
    /\ processor = "none"
    /\ Start

Close ==
    /\ processor = "alive"
    /\ Stop

\* the handler from its first line to the defer: when the defer raises, the
\* except branch runs to its return (the direct message it sends after
\* add_task touches no state of the bot, whether it is delivered or not)
HandleSaveRecipe_ignores_failed_defer(i, user_id, url, is_retry, d) ==
    /\ req[i].pc = "new"
    /\ running
    /\ req' = [req EXCEPT ![i] = [@ EXCEPT !.user_id = user_id, !.url = url,
                                          !.is_retry = is_retry, !.ack = d,
                                          !.pc = "validate"]]
    /\ last' = [op |-> "save_recipe", interaction |-> i, user_id |-> user_id,
                url |-> url, is_retry |-> is_retry, ack |-> d]
    /\ UNCHANGED <<tasks, running, processor, now, openai_api_key, old_loops, stopping, mealie,
                   client, ensuring>>

HandleSaveRecipe(i, user_id, url, is_retry, d) ==
    /\ req[i].pc = "new"
    /\ running
    /\ LET r == [req[i] EXCEPT !.user_id = user_id, !.url = url,
                               !.is_retry = is_retry, !.ack = d]
       IN  IF d = "ok"
           THEN /\ req' = [req EXCEPT ![i] = [r EXCEPT !.pc = "validate"]]
                /\ UNCHANGED tasks
           ELSE /\ tasks' = defer_failed(tasks, now, d, i, user_id, url, is_retry)
                /\ req' = [req EXCEPT ![i] =
                              Finish(r, IF is_retry THEN "dropped" ELSE "queued")]
    /\ last' = [op |-> "save_recipe", interaction |-> i, user_id |-> user_id,
                url |-> url, is_retry |-> is_retry, ack |-> d]
    /\ UNCHANGED <<running, processor, now, openai_api_key, old_loops, stopping, mealie, client,
                   ensuring>>

ValidateUrl_requeues(i) ==
    /\ req[i].pc = "validate"
    /\ IF ~is_valid_url(req[i].url)
       THEN /\ req' = [req EXCEPT ![i] = Finish(Ran(req[i], "validate_url"), "failed_invalid_url")]
            /\ tasks' = add_task(tasks, now, TaskIdOf(i), req[i].user_id, req[i].url)
       ELSE /\ req' = [req EXCEPT ![i] = [Ran(req[i], "validate_url") EXCEPT !.pc = "primary"]]
            /\ UNCHANGED tasks
    /\ last' = [op |-> "pipeline", interaction |-> i, step |-> "validate_url"]
    /\ UNCHANGED <<running, processor, now, openai_api_key, old_loops, stopping, mealie, client,
                   ensuring>>

ValidateUrl(i) ==
    /\ req[i].pc = "validate"
    /\ IF ~is_valid_url(req[i].url)
       THEN req' = [req EXCEPT ![i] = Finish(Ran(req[i], "validate_url"), "failed_invalid_url")]
       ELSE req' = [req EXCEPT ![i] = [Ran(req[i], "validate_url") EXCEPT !.pc = "primary"]]
    /\ last' = [op |-> "pipeline", interaction |-> i, step |-> "validate_url"]
    /\ UNCHANGED <<tasks, running, processor, now, openai_api_key, old_loops, stopping, mealie,
                   client, ensuring>>

PrimaryCreate_unhandled_error(i, resp) ==
    /\ req[i].pc = "primary"
    /\ LET res == create_recipe_from_url(resp)
           r == [Ran(req[i], "primary") EXCEPT !.objects = primary_object(resp)]
       IN  req' = [req EXCEPT ![i] =
             IF res.kind = "ClientError" THEN [r EXCEPT !.pc = "raised"]
             ELSE IF res.kind = "ValueError" THEN [r EXCEPT !.pc = "ai_parse"]
             ELSE IF res.slug # "" THEN [r EXCEPT !.pc = "complete", !.slug = res.slug]
             ELSE [r EXCEPT !.pc = "ai_parse"]]
    /\ last' = [op |-> "pipeline", interaction |-> i, step |-> "primary", resp |-> resp]
    /\ UNCHANGED <<tasks, running, processor, now, openai_api_key, old_loops, stopping, mealie,
                   client, ensuring>>

\* await create_recipe_from_url(url) and the branch the handler takes on its result
PrimaryCreate(i, resp) ==
    /\ req[i].pc = "primary"
    /\ LET res == create_recipe_from_url(resp)
           r == [Ran(req[i], "primary") EXCEPT !.objects = primary_object(resp)]
       IN  req' = [req EXCEPT ![i] =
             IF res.kind = "ClientError" THEN Finish(r, "failed_error")
             ELSE IF res.kind = "ValueError" THEN [r EXCEPT !.pc = "ai_parse"]
             ELSE IF res.slug # "" THEN [r EXCEPT !.pc = "complete", !.slug = res.slug]
             ELSE [r EXCEPT !.pc = "ai_parse"]]
    /\ last' = [op |-> "pipeline", interaction |-> i, step |-> "primary", resp |-> resp]
    /\ UNCHANGED <<tasks, running, processor, now, openai_api_key, old_loops, stopping, mealie,
                   client, ensuring>>

ValidateComplete_trusts_failed_fetch(i, fetch) ==
    /\ req[i].pc = "complete"
    /\ LET v == validate_recipe_complete(fetch)
           r == Ran(req[i], "complete")
       IN  req' = [req EXCEPT ![i] =
             IF v[1] \/ ~fetch.ok THEN Finish(r, "created_primary")
             ELSE [r EXCEPT !.pc = "ai_parse", !.reason = v[2]]]
    /\ last' = [op |-> "pipeline", interaction |-> i, step |-> "complete", fetch |-> fetch]
    /\ UNCHANGED <<tasks, running, processor, now, openai_api_key, old_loops, stopping, mealie,
                   client, ensuring>>

ValidateComplete_always_enhances(i, fetch) ==
    /\ req[i].pc = "complete"
    /\ LET v == validate_recipe_complete(fetch)
           r == Ran(req[i], "complete")
       IN  req' = [req EXCEPT ![i] = [r EXCEPT !.pc = "ai_parse", !.reason = v[2]]]
    /\ last' = [op |-> "pipeline", interaction |-> i, step |-> "complete", fetch |-> fetch]
    /\ UNCHANGED <<tasks, running, processor, now, openai_api_key, old_loops, stopping, mealie,
                   client, ensuring>>

\* await validate_recipe_complete(slug)
ValidateComplete(i, fetch) ==
    /\ req[i].pc = "complete"
    /\ LET v == validate_recipe_complete(fetch)
           r == Ran(req[i], "complete")
       IN  req' = [req EXCEPT ![i] =
             IF v[1] THEN Finish(r, "created_primary")
             ELSE [r EXCEPT !.pc = "ai_parse", !.reason = v[2]]]
    /\ last' = [op |-> "pipeline", interaction |-> i, step |-> "complete", fetch |-> fetch]
    /\ UNCHANGED <<tasks, running, processor, now, openai_api_key, old_loops, stopping, mealie,
                   client, ensuring>>

AiParse_keeps_partial_data(i, a) ==
    /\ req[i].pc = "ai_parse"
    /\ LET r == [Ran(req[i], "ai_parse") EXCEPT
                    !.ai_called = ai_service_called(openai_api_key, a)]
       IN  req' = [req EXCEPT ![i] =
             IF parse_recipe_with_ai(openai_api_key, a) \/ (openai_api_key /\ a = "missing_fields")
             THEN [r EXCEPT !.pc = "ai_create"]
             ELSE Finish(r, IF r.slug # None THEN "partial" ELSE "failed")]
    /\ last' = [op |-> "pipeline", interaction |-> i, step |-> "ai_parse", ai |-> a]
    /\ UNCHANGED <<tasks, running, processor, now, openai_api_key, old_loops, stopping, mealie,
                   client, ensuring>>

\* await parse_recipe_with_ai(url)
AiParse(i, a) ==
    /\ req[i].pc = "ai_parse"
    /\ LET r == [Ran(req[i], "ai_parse") EXCEPT
                    !.ai_called = ai_service_called(openai_api_key, a)]
       IN  req' = [req EXCEPT ![i] =
             IF parse_recipe_with_ai(openai_api_key, a)
             THEN [r EXCEPT !.pc = "ai_create"]
             ELSE Finish(r, IF r.slug # None THEN "partial" ELSE "failed")]
    /\ last' = [op |-> "pipeline", interaction |-> i, step |-> "ai_parse", ai |-> a]
    /\ UNCHANGED <<tasks, running, processor, now, openai_api_key, old_loops, stopping, mealie,
                   client, ensuring>>

AiCreate_patches_primary(i, c) ==
    /\ req[i].pc = "ai_create"
    /\ LET r == [Ran(req[i], "ai_create") EXCEPT
                    !.objects = IF c \in {"slug", "no_slug"} /\ req[i].slug = None
                                THEN Append(@, AiObject) ELSE @]
       IN  req' = [req EXCEPT ![i] =
             IF c = "slug"
             THEN Finish([r EXCEPT !.ai_slug = IF r.slug = None THEN AiObject ELSE r.slug],
                         "created_ai")
             ELSE Finish(r, "failed_ai_not_persisted")]
    /\ last' = [op |-> "pipeline", interaction |-> i, step |-> "ai_create", created |-> c]
    /\ UNCHANGED <<tasks, running, processor, now, openai_api_key, old_loops, stopping, mealie,
                   client, ensuring>>

\* await create_recipe_from_ai_data(url, ai_recipe_data)
AiCreate(i, c) ==
    /\ req[i].pc = "ai_create"
    /\ LET r == [Ran(req[i], "ai_create") EXCEPT
                    !.objects = IF c \in {"slug", "no_slug"} THEN Append(@, AiObject) ELSE @]
       IN  req' = [req EXCEPT ![i] =
             IF c = "slug" THEN Finish([r EXCEPT !.ai_slug = AiObject], "created_ai")
             ELSE Finish(r, "failed_ai_not_persisted")]
    /\ last' = [op |-> "pipeline", interaction |-> i, step |-> "ai_create", created |-> c]
    /\ UNCHANGED <<tasks, running, processor, now, openai_api_key, old_loops, stopping, mealie,
                   client, ensuring>>

Pipeline(i) ==
    \/ ValidateUrl(i)
    \/ \E resp \in PrimaryResponses : PrimaryCreate(i, resp)
    \/ \E fetch \in FetchResults : ValidateComplete(i, fetch)
    \/ \E a \in AiResults : AiParse(i, a)
    \/ \E c \in AiCreateResults : AiCreate(i, c)

\* the save_recipe command starts the handler with is_retry = False
SaveRecipe ==
    \E i \in InteractionIds, a \in CallArgs, d \in DeferResults :
        HandleSaveRecipe(i, a[1], a[2], FALSE, d)

BotNext ==
    \/ SetupHook
    \/ Close
    \/ SaveRecipe
    \/ \E i \in InteractionIds : Pipeline(i)
    \/ Tick
    \/ AdvanceTime

BotSpec == Init /\ [][BotNext]_vars

\* the event loop runs every ready coroutine: the scheduler loop wakes up
\* after its sleep and an awaited call of a handler returns
BotLiveSpec ==
    /\ BotSpec
    /\ WF_vars(Tick)
    /\ WF_vars(AdvanceTime)
    /\ \A i \in InteractionIds : WF_vars(Pipeline(i))

\* _handle_save_recipe_slash called again, with is_retry = True, for the
\* interaction of a task that the scheduler marked RETRYING: the redrive that
\* the queue leaves to its caller
Redrive(i, d) ==
    /\ running
    /\ req[i].pc = "returned"
    /\ HasTask(tasks, TaskIdOf(i))
    /\ get_task(tasks, TaskIdOf(i)).status = RETRYING
    /\ LET task == get_task(tasks, TaskIdOf(i))
           r == [NewRequest EXCEPT !.user_id = task.user_id, !.url = task.url,
                                   !.is_retry = TRUE, !.ack = d]
       IN  /\ IF d = "ok"
              THEN /\ req' = [req EXCEPT ![i] = [r EXCEPT !.pc = "validate"]]
                   /\ UNCHANGED tasks
              ELSE /\ tasks' = defer_failed(tasks, now, d, i, task.user_id, task.url, TRUE)
                   /\ req' = [req EXCEPT ![i] = Finish(r, "dropped")]
           /\ last' = [op |-> "save_recipe", interaction |-> i, user_id |-> task.user_id,
                       url |-> task.url, is_retry |-> TRUE, ack |-> d]
    /\ UNCHANGED <<running, processor, now, openai_api_key, old_loops, stopping, mealie,
                   client, ensuring>>

\* the commands, the scheduler and the redrives, up to the acknowledgement
RedriveNext ==
    \/ SetupHook
    \/ Close
    \/ SaveRecipe
    \/ \E i \in InteractionIds, d \in DeferResults : Redrive(i, d)
    \/ Tick
    \/ AdvanceTime

RedriveSpec == Init /\ [][RedriveNext]_vars

\* the handlers alone: the bot is set up and closed, commands arrive and every
\* handler that awaits a response is resumed when the response is there
HandlerNext ==
    \/ SetupHook
    \/ Close
    \/ SaveRecipe
    \/ \E i \in InteractionIds : Pipeline(i)

HandlerSpec == Init /\ [][HandlerNext]_vars

HandlerLiveSpec ==
    /\ HandlerSpec
    /\ \A i \in InteractionIds : WF_vars(Pipeline(i))

-----------------------------------------------------------------------------
(* create_recipe_from_url step by step: the POST, then _add_tags_to_recipe   *)
(* with one step for each request it makes                                   *)

\* the POST of /api/recipes/create/url is answered
CreateFromUrl(resp, attached) ==
    /\ client.pc = "idle"
    /\ LET res == create_recipe_from_url(resp)
       IN  IF res.kind = "created"
           THEN /\ client' = [IdleClient EXCEPT !.pc = "get_recipe", !.resp = resp,
                                                !.slug = res.slug, !.posts = 1]
                /\ mealie' = [mealie EXCEPT !.recipe_tags = attached]
           ELSE /\ client' = [IdleClient EXCEPT !.pc = "returned", !.resp = resp,
                                                !.result = res, !.posts = 1]
                /\ attached = <<>>
                /\ UNCHANGED mealie
    /\ last' = [op |-> "create_from_url", resp |-> resp]
    /\ UNCHANGED <<tasks, running, processor, now, req, openai_api_key, old_loops, stopping,
                   ensuring>>

\* the return of create_recipe_from_url after 'except Exception as tag_error'
\* or after _add_tags_to_recipe returned
Created(c, tag_error) ==
    [c EXCEPT !.pc = "returned", !.tag_error = tag_error,
              !.result = Returned(c.slug)]

\* _add_tags_to_recipe: the GET of the recipe is answered
GetRecipe(g) ==
    /\ client.pc = "get_recipe"
    /\ client' = IF g = "ok"
                 THEN [client EXCEPT !.pc = "ensure", !.todo = DefaultTags,
                                     !.current_tags = mealie.recipe_tags]
                 ELSE Created(client, IF g = "non200" THEN "ValueError" ELSE "ClientError")
    /\ last' = [op |-> "get_recipe", get |-> g]
    /\ UNCHANGED <<tasks, running, processor, now, req, openai_api_key, old_loops, stopping,
                   mealie, ensuring>>

EnsureTag_aborts_on_failure(lookup, create) ==
    /\ client.pc = "ensure"
    /\ client.todo # <<>>
    /\ LET tag_name == Head(client.todo)
           e == ensure_tag_exists(mealie.tags, tag_name, lookup, create)
           objs == IF e.obj # NoTag THEN Append(client.tag_objects, e.obj)
                   ELSE client.tag_objects
           c == [client EXCEPT !.todo = Tail(@), !.tag_objects = objs,
                               !.posts = IF e.posted THEN @ + 1 ELSE @]
       IN  /\ Len(e.tags) <= MaxTags
           /\ mealie' = [mealie EXCEPT !.tags = e.tags]
           /\ client' = IF e.obj = NoTag THEN Created(c, None)
                        ELSE IF c.todo # <<>> THEN c
                        ELSE IF objs = <<>> THEN Created(c, None)
                        ELSE [c EXCEPT !.pc = "assign"]
           /\ last' = [op |-> "ensure_tag", name |-> tag_name, lookup |-> lookup,
                       create |-> create, posted |-> e.posted,
                       existed |-> FirstMatch(mealie.tags, tag_name) # 0, obj |-> e.obj]
    /\ UNCHANGED <<tasks, running, processor, now, req, openai_api_key, old_loops, stopping,
                   ensuring>>

\* _add_tags_to_recipe: one turn of 'for tag_name in tags', and the return
\* when the loop ends with no tag object
EnsureTag(lookup, create) ==
    /\ client.pc = "ensure"
    /\ client.todo # <<>>
    /\ LET tag_name == Head(client.todo)
           e == ensure_tag_exists(mealie.tags, tag_name, lookup, create)
           objs == IF e.obj # NoTag THEN Append(client.tag_objects, e.obj)
                   ELSE client.tag_objects
           c == [client EXCEPT !.todo = Tail(@), !.tag_objects = objs,
                               !.posts = IF e.posted THEN @ + 1 ELSE @]
       IN  /\ Len(e.tags) <= MaxTags
           /\ mealie' = [mealie EXCEPT !.tags = e.tags]
           /\ client' = IF c.todo # <<>> THEN c
                        ELSE IF objs = <<>> THEN Created(c, None)
                        ELSE [c EXCEPT !.pc = "assign"]
           /\ last' = [op |-> "ensure_tag", name |-> tag_name, lookup |-> lookup,
                       create |-> create, posted |-> e.posted,
                       existed |-> FirstMatch(mealie.tags, tag_name) # 0, obj |-> e.obj]
    /\ UNCHANGED <<tasks, running, processor, now, req, openai_api_key, old_loops, stopping,
                   ensuring>>

AssignTags_error_propagates(p) ==
    /\ client.pc = "assign"
    /\ mealie' = IF p = "2xx"
                 THEN [mealie EXCEPT !.recipe_tags =
                                  IdsOf(merge_tags(client.current_tags, client.tag_objects))]
                 ELSE mealie
    /\ client' = IF p = "2xx" THEN Created(client, None)
                 ELSE [client EXCEPT !.pc = "returned",
                                     !.result = Raised(IF p = "raises" THEN "ClientError"
                                                      ELSE "ValueError", None)]
    /\ last' = [op |-> "assign_tags", patch |-> p,
                update_data |-> merge_tags(client.current_tags, client.tag_objects)]
    /\ UNCHANGED <<tasks, running, processor, now, req, openai_api_key, old_loops, stopping,
                   ensuring>>

\* _add_tags_to_recipe: the PATCH of the recipe with the merged tags is answered
AssignTags(p) ==
    /\ client.pc = "assign"
    /\ mealie' = IF p = "2xx"
                 THEN [mealie EXCEPT !.recipe_tags =
                                  IdsOf(merge_tags(client.current_tags, client.tag_objects))]
                 ELSE mealie
    /\ client' = Created(client, IF p = "raises" THEN "ClientError" ELSE None)
    /\ last' = [op |-> "assign_tags", patch |-> p,
                update_data |-> merge_tags(client.current_tags, client.tag_objects)]
    /\ UNCHANGED <<tasks, running, processor, now, req, openai_api_key, old_loops, stopping,
                   ensuring>>

\* the caller has the result; the client takes the next call
ClientReturn ==
    /\ client.pc = "returned"
    /\ client' = IdleClient
    /\ last' = [op |-> "client_return"]
    /\ UNCHANGED <<tasks, running, processor, now, req, openai_api_key, old_loops, stopping,
                   mealie, ensuring>>

\* another user of the backend creates a tag of a name that no tag has yet
BackendAddsTag(name) ==
    /\ Len(mealie.tags) < MaxTags
    /\ FirstMatch(mealie.tags, name) = 0
    /\ mealie' = [mealie EXCEPT !.tags = Append(@, name)]
    /\ last' = [op |-> "backend_adds_tag", name |-> name]
    /\ UNCHANGED <<tasks, running, processor, now, req, openai_api_key, old_loops, stopping,
                   client, ensuring>>

TagNext ==
    \/ \E resp \in PrimaryResponses, attached \in AttachedTags(mealie.tags) :
          CreateFromUrl(resp, attached)
    \/ \E g \in LookupResults : GetRecipe(g)
    \/ \E lookup \in LookupResults, create \in CreateResults : EnsureTag(lookup, create)
    \/ \E p \in {"2xx", "non2xx", "raises"} : AssignTags(p)
    \/ ClientReturn
    \/ \E name \in TagNames : BackendAddsTag(name)

TagSpec == Init /\ [][TagNext]_vars

-----------------------------------------------------------------------------
(* validate_recipe_data called once, with any settings and any recipe *)

\* the state after construction, with the arguments of the call to come
ValidateInit ==
    /\ tasks = <<>>
    /\ running = FALSE
    /\ processor = "none"
    /\ now = 0
    /\ req = [i \in InteractionIds |-> NewRequest]
    /\ openai_api_key \in BOOLEAN
    /\ old_loops = <<>>
    /\ stopping = {}
    /\ mealie = [tags |-> <<>>, recipe_tags |-> <<>>]
    /\ client = IdleClient
    /\ ensuring = [i \in InteractionIds |-> NoCall]
    /\ last \in [op : {"arguments"}, require_instructions : BOOLEAN,
                  require_ingredients : BOOLEAN, recipe_data : RecipeData]

ValidateRecipeData ==
    /\ last.op = "arguments"
    /\ last' = [op |-> "validate_recipe_data",
                require_instructions |-> last.require_instructions,
                require_ingredients |-> last.require_ingredients,
                recipe_data |-> last.recipe_data,
                result |-> validate_recipe_data(last.require_instructions,
                                                last.require_ingredients, last.recipe_data)]
    /\ UNCHANGED <<tasks, running, processor, now, req, openai_api_key, old_loops, stopping,
                   mealie, client, ensuring>>

ValidateNext == ValidateRecipeData

ValidateSpec == ValidateInit /\ [][ValidateNext]_vars

-----------------------------------------------------------------------------
(* _ensure_tag_exists as the handlers of several interactions run it on the  *)
(* one MealieClient: the event loop may switch between them at the await of  *)
(* the lookup and at the await of the create request                         *)

\* the calls in progress, other than i's, whose lookup found no tag of this
\* name and whose create request has not been answered yet
Pending(i, tag_name) ==
    {j \in InteractionIds \ {i} :
        ensuring[j].pc = "create" /\ Lower(ensuring[j].name) = Lower(tag_name)}

\* the GET of the tag list is answered and searched for the name
EnsureLookup(i, tag_name, lookup) ==
    /\ ensuring[i].pc = "idle"
    /\ LET k == IF lookup = "ok" THEN FirstMatch(mealie.tags, tag_name) ELSE 0
           call == [NoCall EXCEPT !.name = tag_name, !.lookup = lookup]
       IN  ensuring' = [ensuring EXCEPT ![i] =
               IF k # 0 THEN [call EXCEPT !.pc = "returned"]
               ELSE [call EXCEPT !.pc = "create",
                                 !.after = IF Pending(i, tag_name) = {} THEN 0
                                           ELSE CHOOSE j \in Pending(i, tag_name) : TRUE]]
    /\ last' = [op |-> "ensure_lookup", interaction |-> i, name |-> tag_name,
                lookup |-> lookup]
    /\ UNCHANGED <<tasks, running, processor, now, req, openai_api_key, old_loops, stopping,
                   mealie, client>>

\* the POST of the new tag is answered
EnsureCreate(i, create) ==
    /\ ensuring[i].pc = "create"
    /\ LET e == ensure_tag_exists(mealie.tags, ensuring[i].name, "non200", create)
       IN  /\ Len(e.tags) <= MaxTags
           /\ mealie' = [mealie EXCEPT !.tags = e.tags]
    /\ ensuring' = [ensuring EXCEPT ![i] = [@ EXCEPT !.pc = "returned", !.posted = TRUE]]
    /\ last' = [op |-> "ensure_create", interaction |-> i, create |-> create]
    /\ UNCHANGED <<tasks, running, processor, now, req, openai_api_key, old_loops, stopping,
                   client>>

\* the call returns to _add_tags_to_recipe
EnsureReturn(i) ==
    /\ ensuring[i].pc = "returned"
    /\ ensuring' = [ensuring EXCEPT ![i] = NoCall]
    /\ last' = [op |-> "ensure_return", interaction |-> i]
    /\ UNCHANGED <<tasks, running, processor, now, req, openai_api_key, old_loops, stopping,
                   mealie, client>>

RaceNext ==
    \/ \E i \in InteractionIds, tag_name \in TagNames, lookup \in LookupResults :
          EnsureLookup(i, tag_name, lookup)
    \/ \E i \in InteractionIds, create \in CreateResults : EnsureCreate(i, create)
    \/ \E i \in InteractionIds : EnsureReturn(i)

RaceSpec == Init /\ [][RaceNext]_vars

-----------------------------------------------------------------------------
(* Properties of the retry queue, checked under Spec *)

TasksWithId(task_id) == {k \in 1..Len(tasks) : tasks[k].task_id = task_id}

\* C1: after add_task(task_id, user_id, url) the registry holds exactly one
\* task with that task_id, and it has the given user_id and url, attempt 0,
\* status Pending and next_retry = now + 5 minutes, whatever task the key
\* held before.
C1_AddTaskOverwrites ==
    last.op = "add_task" =>
        /\ Cardinality(TasksWithId(last.task_id)) = 1
        /\ \A k \in TasksWithId(last.task_id) :
              /\ tasks[k].user_id = last.user_id
              /\ tasks[k].url = last.url
              /\ tasks[k].attempt = 0
              /\ tasks[k].status = PENDING
              /\ tasks[k].next_retry = now + 5

\* an add_task that replaced a task that had already succeeded, next to another task
C1_Witness ==
    /\ last.op = "add_task"
    /\ last.pre_status = SUCCESS
    /\ Len(tasks) = 2

\* the backoff schedule as the specification states it, by the attempt
\* number before the increment
DelayByPreIncrement(attempt) ==
    IF attempt = 0 THEN 5 ELSE IF attempt = 1 THEN 15 ELSE 30

\* the schedule by the attempt number after the increment
DelayByPostIncrement(attempt) ==
    IF attempt = 0 THEN 15 ELSE 30

\* C2 as stated: update_task_status(task_id, Pending) sets next_retry to
\* now + delay with the delay chosen by the attempt number before the
\* increment: 0 gives 5, 1 gives 15, 2 or more gives 30 minutes.
C2_DelayByPreIncrementAttempt ==
    (last.op = "update_task_status" /\ last.found /\ last.status = PENDING) =>
        \A k \in TasksWithId(last.task_id) :
            tasks[k].next_retry = now + DelayByPreIncrement(last.pre_attempt)

\* C2 amended: update_task_status(task_id, Pending) increments attempt first
\* and chooses the delay by the incremented number: a task that had attempt 0
\* gets now + 15 minutes, a task that had attempt 1 or more gets now + 30.
C2_DelayByPostIncrementAttempt ==
    (last.op = "update_task_status" /\ last.found /\ last.status = PENDING) =>
        \A k \in TasksWithId(last.task_id) :
            /\ tasks[k].attempt = last.pre_attempt + 1
            /\ tasks[k].next_retry = now + DelayByPostIncrement(last.pre_attempt)

\* a Pending update of a task that had attempt 1, after the clock has moved
C2_Witness ==
    /\ last.op = "update_task_status"
    /\ last.found
    /\ last.status = PENDING
    /\ last.pre_attempt = 1
    /\ now > 0
    /\ \E k \in TasksWithId(last.task_id) : tasks[k].next_retry = now + 30

Terminal(task) ==
    \/ task.status = SUCCESS
    \/ task.status = FAILED /\ task.attempt >= task.max_attempts

\* a step of the scheduler or of update_task_status: the registry keeps its keys
QueueStep == last'.op \in {"tick", "update_task_status"}

\* C3: once a task is terminal (Success, or Failed with attempt >=
\* max_attempts) no scheduler tick and no update_task_status call makes its
\* status Pending or Retrying again or changes its next_retry.
C3_TerminalNeverRescheduled ==
    [][QueueStep =>
        \A k \in 1..Len(tasks) :
            Terminal(tasks[k]) =>
                /\ tasks'[k].status \notin {PENDING, RETRYING}
                /\ tasks'[k].next_retry = tasks[k].next_retry]_vars

\* C4 as stated: a tick moves a task to Retrying if and only if the task is
\* Pending and next_retry <= now.
C4_TickMarksPendingDueOnly ==
    [][last'.op = "tick" =>
        \A k \in 1..Len(tasks) :
            (tasks[k].status # RETRYING /\ tasks'[k].status = RETRYING)
                <=> (tasks[k].status = PENDING /\ tasks[k].next_retry <= now)]_vars

\* C4 amended: a tick moves a task to Retrying if and only if the task has
\* attempt < max_attempts, a status other than Success (Pending, or Failed
\* with attempts left; a Retrying task stays Retrying) and next_retry <= now;
\* a Success task, a task with attempt >= max_attempts and a task whose
\* next_retry is in the future are never set to Retrying by the tick.
C4_TickMarksDueWithAttemptsLeft ==
    [][last'.op = "tick" =>
        /\ Len(tasks') = Len(tasks)
        /\ \A k \in 1..Len(tasks) :
            /\ (tasks[k].status # RETRYING /\ tasks'[k].status = RETRYING)
                  <=> /\ tasks[k].status \in {PENDING, FAILED}
                      /\ tasks[k].attempt < 3
                      /\ tasks[k].next_retry <= now
            /\ tasks'[k].status # tasks[k].status => tasks'[k].status = RETRYING]_vars

\* a tick that moved a due Failed task to Retrying and a due Pending task too
C4_Witness ==
    /\ last.op = "tick"
    /\ \E m \in last.marked : m[2] = FAILED
    /\ \E m \in last.marked : m[2] = PENDING

AllowedTransitions ==
    {<<PENDING, RETRYING>>, <<RETRYING, SUCCESS>>,
     <<RETRYING, PENDING>>, <<RETRYING, FAILED>>}

\* C5: every status change made by a tick or by update_task_status follows
\* Pending -> Retrying -> {Success, Pending, Failed}; Success and Failed have
\* no outgoing transition.
C5_StatusStateMachine ==
    [][QueueStep =>
        \A k \in 1..Len(tasks) :
            tasks'[k].status # tasks[k].status =>
                <<tasks[k].status, tasks'[k].status>> \in AllowedTransitions]_vars

\* C6: a task whose attempt has reached max_attempts is never eligible for
\* the scan, ticks and further updates keep it that way, and a tick leaves
\* it unchanged however old its next_retry is.
C6_ExhaustedNeverEligible ==
    /\ [](\A k \in 1..Len(tasks) :
            tasks[k].attempt >= 3 => ~should_retry(tasks[k], now))
    /\ [][QueueStep =>
            \A k \in 1..Len(tasks) :
                tasks[k].attempt >= 3 =>
                    /\ tasks'[k].attempt >= 3
                    /\ last'.op = "tick" => tasks'[k] = tasks[k]]_vars

\* a tick that found a task Failed at attempt 3 with its next_retry in the past
C6_Witness ==
    /\ last.op = "tick"
    /\ \E k \in 1..Len(tasks) :
          /\ tasks[k].status = FAILED
          /\ tasks[k].attempt = 3
          /\ tasks[k].next_retry < now

\* C7: every task has 0 <= attempt <= max_attempts.
C7_AttemptBounded ==
    \A k \in 1..Len(tasks) : tasks[k].attempt >= 0 /\ tasks[k].attempt <= 3

-----------------------------------------------------------------------------
(* Properties of the bot, checked under BotSpec and BotLiveSpec *)

\* C8: while the bot runs, every task marked Retrying is eventually redriven:
\* the handler is invoked again for it and update_task_status is called for it.
C8_RetryingIsRedriven ==
    \A task_id \in TaskIds :
        (\E k \in TasksWithId(task_id) : tasks[k].status = RETRYING)
            ~> \/ last.op = "update_task_status" /\ last.task_id = task_id
               \/ ~running

\* C9: when the defer of a fresh request raises NotFound or HTTPException,
\* the handler returns with exactly one task keyed recipe_<interaction id>
\* in the queue, Pending, with the requester's user id and the url, attempt 0,
\* due in 5 minutes, and without having run any pipeline step.
C9_FailedAckIsQueued ==
    (last.op = "save_recipe" /\ last.ack # "ok" /\ ~last.is_retry) =>
        /\ Cardinality(TasksWithId(TaskIdOf(last.interaction))) = 1
        /\ \A k \in TasksWithId(TaskIdOf(last.interaction)) :
              /\ tasks[k].status = PENDING
              /\ tasks[k].user_id = last.user_id
              /\ tasks[k].url = last.url
              /\ tasks[k].attempt = 0
              /\ tasks[k].next_retry = now + 5
        /\ req[last.interaction].pc = "returned"
        /\ req[last.interaction].steps = <<>>

\* a defer that failed with a transport error while another task was queued
C9_Witness ==
    /\ last.op = "save_recipe"
    /\ last.ack = "HTTPException"
    /\ ~last.is_retry
    /\ Len(tasks) = 2

\* C10: an acknowledged request never puts work into the retry queue: no
\* step of its pipeline changes the queue, and no task is keyed by it,
\* however the pipeline ends.
C10_PipelineNeverQueues ==
    /\ [](\A i \in InteractionIds :
            req[i].ack = "ok" => TasksWithId(TaskIdOf(i)) = {})
    /\ [][(\E i \in InteractionIds : req[i].ack = "ok" /\ req'[i] # req[i])
            => tasks' = tasks]_vars

\* an acknowledged request that ended on an invalid URL while a task of
\* another request was queued
C10_Witness ==
    /\ last.op = "pipeline"
    /\ req[last.interaction].outcome = "failed_invalid_url"
    /\ tasks # <<>>

-----------------------------------------------------------------------------
\* C11: a scheduler tick changes nothing but the status of tasks, and only to
\* Retrying: attempt, next_retry, last_error, url and user_id of every task
\* are kept, no task is added or removed, and no handler invocation moves.
C11_TickIsSignalOnly ==
    [][last'.op = "tick" =>
        /\ Len(tasks') = Len(tasks)
        /\ \A k \in 1..Len(tasks) :
              /\ tasks'[k] = [tasks[k] EXCEPT !.status = tasks'[k].status]
              /\ tasks'[k].status \in {tasks[k].status, RETRYING}
        /\ req' = req
        /\ <<running, processor, now>>' = <<running, processor, now>>]_vars

C11_Witness ==
    /\ last.op = "tick"
    /\ last.marked # {}
    /\ Len(tasks) = 2
    /\ \E k \in 1..Len(tasks) :
          /\ tasks[k].status = RETRYING
          /\ tasks[k].attempt >= 1
          /\ tasks[k].last_error # None
          /\ tasks[k].next_retry <= now

\* C12: an error raised while the loop scans does not end the loop: unless the
\* queue is stopped, a later tick happens and leaves every eligible task
\* Retrying.
C12_LoopSurvivesScanError ==
    (last.op = "tick_error") ~>
        (\/ ~running
         \/ /\ last.op = "tick"
            /\ \A k \in 1..Len(tasks) :
                  should_retry(tasks[k], now) => tasks[k].status = RETRYING)

C12_Witness ==
    /\ last.op = "tick_error"
    /\ running
    /\ \E k \in 1..Len(tasks) : should_retry(tasks[k], now) /\ tasks[k].status = PENDING

\* C13: stop() is clean: no step of stop() touches the tasks and every tick is
\* applied whole; a cancelled loop never ticks; stop() returns only when the
\* loop it awaits has ended; no tick happens while the queue is not running.
C13_StopIsClean ==
    /\ [](last.op = "stop_return" => LoopState(last.loop) = "ended")
    /\ [](last.op = "loop_tick" =>
            \A k \in 1..Len(tasks) :
                should_retry(tasks[k], now) => tasks[k].status = RETRYING)
    /\ [][last'.op \in {"stop_call", "loop_end", "stop_return"} => tasks' = tasks]_vars
    /\ [][\A id \in 1..CurrentLoop :
            LoopState(id) \in {"cancelling", "ended"} =>
                ~(last'.op = "loop_tick" /\ last'.loop = id)]_vars
    /\ [][~running => last'.op # "loop_tick"]_vars

C13_Witness ==
    /\ last.op = "stop_return"
    /\ ~running
    /\ \E k \in 1..Len(tasks) : tasks[k].status = RETRYING
    /\ \E k \in 1..Len(tasks) : should_retry(tasks[k], now) /\ tasks[k].status = PENDING

\* C15: at most one loop task is able to scan at any time: start() on a
\* running queue creates no loop task, and a loop task that stop() cancelled
\* is never alive again.
C15_AtMostOneLoop ==
    /\ [](Cardinality({id \in 1..CurrentLoop : LoopState(id) = "alive"}) <= 1)
    /\ [][last'.op = "start_call" /\ running =>
            <<old_loops, processor>>' = <<old_loops, processor>>]_vars
    /\ [][\A id \in 1..CurrentLoop :
            LoopState(id) \in {"cancelling", "ended"} =>
                LoopStateIn(old_loops', processor', id) \in {"cancelling", "ended"}]_vars

C15_Witness ==
    /\ last.op = "start_call"
    /\ ~last.created
    /\ processor = "alive"
    /\ \E id \in 1..Len(old_loops) : old_loops[id] = "cancelling"

\* C14: every update_task_status call is applied whole, whatever ticks and
\* other calls surround it: the task's attempt grows by exactly one, its status
\* is the one passed, its next_retry is re-armed with it when the status is
\* Pending and kept otherwise, and no other task changes; a tick, complete or
\* interrupted, never changes attempt or next_retry.  So k calls add exactly k.
C14_UpdatesAreSerialized ==
    /\ [][last'.op = "update_task_status" /\ last'.found =>
            /\ Len(tasks') = Len(tasks)
            /\ \A k \in 1..Len(tasks) :
                  IF tasks[k].task_id = last'.task_id
                  THEN /\ tasks'[k].attempt = tasks[k].attempt + 1
                       /\ tasks'[k].status = last'.status
                       /\ tasks'[k].next_retry =
                             IF last'.status = PENDING
                             THEN now + DelayByPostIncrement(tasks[k].attempt)
                             ELSE tasks[k].next_retry
                  ELSE tasks'[k] = tasks[k]]_vars
    /\ [][last'.op \in {"tick", "tick_error"} =>
            /\ Len(tasks') = Len(tasks)
            /\ \A k \in 1..Len(tasks) :
                  /\ tasks'[k].attempt = tasks[k].attempt
                  /\ tasks'[k].next_retry = tasks[k].next_retry]_vars

C14_Witness ==
    /\ last.op = "update_task_status"
    /\ last.found
    /\ last.pre_attempt = 2
    /\ running /\ processor = "alive"
    /\ Len(tasks) = 2
    /\ \E k \in TasksWithId(last.task_id) : tasks[k].attempt = 3
    /\ \E k \in 1..Len(tasks) : tasks[k].status = RETRYING

\* the task_ids of the registry, in its order
KeysOf(ts) == [k \in 1..Len(ts) |-> ts[k].task_id]

\* C16: get_user_tasks(user_id) returns the tasks of the registry whose
\* user_id is the argument, each once and no other, in the order of the
\* registry; and the order of the registry is the order in which the task_ids
\* were first inserted: add_task puts a new key last and leaves a known key in
\* place, remove_task takes the key out, and nothing else moves a key.
C16_GetUserTasksInInsertionOrder ==
    /\ [](last.op = "get_user_tasks" =>
            LET res == last.result
            IN  /\ \A j \in 1..Len(res) :
                      /\ res[j].user_id = last.user_id
                      /\ \E k \in 1..Len(tasks) : tasks[k] = res[j]
                /\ \A k \in 1..Len(tasks) :
                      tasks[k].user_id = last.user_id =>
                          Cardinality({j \in 1..Len(res) : res[j].task_id = tasks[k].task_id}) = 1
                /\ \A j1, j2 \in 1..Len(res) :
                      j1 < j2 => IndexOf(tasks, res[j1].task_id) < IndexOf(tasks, res[j2].task_id))
    /\ [][KeysOf(tasks)' =
            IF last'.op = "add_task"
            THEN IF HasTask(tasks, last'.task_id) THEN KeysOf(tasks)
                 ELSE Append(KeysOf(tasks), last'.task_id)
            ELSE IF last'.op = "remove_task"
            THEN SelectSeq(KeysOf(tasks), LAMBDA id : id # last'.task_id)
            ELSE KeysOf(tasks)]_vars

C16_Witness ==
    /\ last.op = "get_user_tasks"
    /\ Len(last.result) = 2
    /\ last.result[1].task_id = TaskIdOf(2)
    /\ last.result[1].attempt = 0
    /\ last.result[2].attempt >= 1

\* an acknowledged invocation that is past the url validation
Validated(i) == req[i].ack = "ok" /\ req[i].pc \notin {"new", "validate"}

\* C17: an acknowledged import of a url without a scheme or without a host
\* ends Failed (invalid url) at the validation, and no step that sends a
\* request (primary create, completeness fetch, AI parse, AI create) runs.
C17_NoSchemeOrNoHostIsRejected ==
    \A i \in InteractionIds :
        (Validated(i) /\ (req[i].url.scheme = "" \/ req[i].url.netloc = "")) =>
            /\ req[i].pc = "returned"
            /\ req[i].outcome = "failed_invalid_url"
            /\ req[i].steps = <<"validate_url">>

C17_Witness ==
    \E i, j \in InteractionIds :
        /\ Validated(i) /\ req[i].url.scheme = "https" /\ req[i].url.netloc = ""
        /\ req[i].outcome = "failed_invalid_url"
        /\ Validated(j) /\ req[j].url.scheme = "" /\ req[j].url.netloc = "example.com"
        /\ req[j].outcome = "failed_invalid_url"

\* C18: the url validation of the pipeline accepts a url only if its scheme is
\* http or https and its host is not empty: any other acknowledged import ends
\* Failed (invalid url) before the primary backend is called.
C18_OnlyHttpSchemesAccepted ==
    \A i \in InteractionIds :
        (Validated(i) /\ ~(req[i].url.scheme \in {"http", "https"} /\ req[i].url.netloc # "")) =>
            /\ req[i].outcome = "failed_invalid_url"
            /\ req[i].steps = <<"validate_url">>

\* the last step was the step of this name in the handler of some interaction
StepDone(step) == last.op = "pipeline" /\ last.step = step

\* the recipe fetched for the completeness check has a name of more than 3
\* characters, an ingredient and an instruction
FetchedComplete(fetch) ==
    fetch.ok /\ fetch.name_len > 3 /\ fetch.ingredients >= 1 /\ fetch.instructions >= 1

\* C19: when the primary backend returned a reference and the completeness
\* validation of it passes, the import ends Created by the primary method for
\* that reference, and neither AI step ran; and a run that ends Created by
\* the primary method never ran an AI step.
C19_CompletePrimaryNeedsNoAi ==
    /\ (StepDone("complete") /\ FetchedComplete(last.fetch)) =>
            LET r == req[last.interaction]
            IN  /\ r.pc = "returned"
                /\ r.outcome = "created_primary"
                /\ r.slug \notin {None, ""}
                /\ r.steps = <<"validate_url", "primary", "complete">>
    /\ \A i \in InteractionIds :
          req[i].outcome = "created_primary" =>
              \A k \in 1..Len(req[i].steps) : req[i].steps[k] \notin {"ai_parse", "ai_create"}

C19_Witness ==
    /\ StepDone("complete")
    /\ FetchedComplete(last.fetch)
    /\ openai_api_key
    /\ req[last.interaction].slug = "r1"
    /\ req[last.interaction].outcome = "created_primary"

\* C20: when create-from-url fails with a transport error, the pipeline does
\* not abort: the AI fallback is the next step.
C20_TransportErrorFallsBackToAi ==
    (StepDone("primary") /\ last.resp.body = "ClientError") =>
        /\ req[last.interaction].pc = "ai_parse"
        /\ req[last.interaction].outcome = None

\* C21: when create-from-url is answered with HTTP 400, the run ends Failed at
\* that step and no AI step is ahead of it.
C21_ClientErrorEndsWithoutAi ==
    (StepDone("primary") /\ last.resp.status = 400) =>
        /\ req[last.interaction].pc = "returned"
        /\ req[last.interaction].outcome \in {"failed", "failed_error"}

\* the outcomes a run can end with, by the kind the claims name
CreatedOutcomes == {"created_primary", "created_ai"}
PartialOutcomes == {"partial"}
FailedOutcomes == {"failed", "failed_error", "failed_invalid_url", "failed_ai_not_persisted"}

\* C29: an acknowledged import always ends: whatever the primary backend, the
\* validation fetch, the AI service and the AI create call answer, the handler
\* returns with one outcome, Created, PartiallyCreated or Failed, and the
\* outcome of a run that has returned never changes.
C29_AcknowledgedImportTerminates ==
    /\ \A i \in InteractionIds :
          (req[i].ack = "ok") ~>
              (/\ req[i].pc = "returned"
               /\ req[i].outcome \in CreatedOutcomes \cup PartialOutcomes \cup FailedOutcomes)
    /\ [][\A i \in InteractionIds : req[i].pc = "returned" => req'[i] = req[i]]_vars

C29_Witness ==
    \E i \in InteractionIds :
        /\ req[i].ack = "ok"
        /\ req[i].pc = "returned"
        /\ req[i].steps = <<"validate_url", "primary", "complete", "ai_parse", "ai_create">>
        /\ req[i].outcome = "failed_ai_not_persisted"

\* C22: when the primary reference fails the completeness validation for its
\* ingredients and AI is not configured, the run ends PartiallyCreated for that
\* reference with the reason that names the ingredients; the AI service is
\* not called and the backend holds no object besides the primary one.
C22_NoIngredientsNoAiIsPartial ==
    (/\ StepDone("ai_parse")
     /\ ~openai_api_key
     /\ req[last.interaction].reason = "Recipe has no ingredients") =>
        LET r == req[last.interaction]
        IN  /\ r.pc = "returned"
            /\ r.outcome \in PartialOutcomes
            /\ r.slug \notin {None, ""}
            /\ r.steps = <<"validate_url", "primary", "complete", "ai_parse">>
            /\ ~r.ai_called
            /\ r.ai_slug = None
            /\ \A k \in 1..Len(r.objects) : r.objects[k] = r.slug

C22_Witness ==
    /\ StepDone("ai_parse")
    /\ ~openai_api_key
    /\ req[last.interaction].reason = "Recipe has no ingredients"
    /\ req[last.interaction].slug = "r1"
    /\ req[last.interaction].objects = <<"r1">>
    /\ req[last.interaction].outcome = "partial"

\* C23: when the primary backend reported no recipe or answered with a
\* malformed response, so that the run carries no reference, and AI is not
\* configured, the run ends Failed: no object was created and the AI service
\* was not called.
C23_NoReferenceNoAiIsFailed ==
    (/\ StepDone("ai_parse")
     /\ ~openai_api_key
     /\ req[last.interaction].slug \in {None, "no-recipe"}) =>
        LET r == req[last.interaction]
        IN  /\ r.pc = "returned"
            /\ r.outcome \in FailedOutcomes
            /\ r.objects = <<>>
            /\ ~r.ai_called

\* C24: the completeness validation of a fetched recipe reports the first
\* failing condition in the order name longer than 3 characters, at least one
\* ingredient, at least one instruction, and passes exactly when all three
\* hold.
C24_CompletenessPrecedence ==
    (StepDone("complete") /\ last.fetch.ok) =>
        LET f == last.fetch
            r == req[last.interaction]
        IN  IF f.name_len <= 3
            THEN r.pc = "ai_parse" /\ r.reason = "Recipe has no valid name"
            ELSE IF f.ingredients < 1
            THEN r.pc = "ai_parse" /\ r.reason = "Recipe has no ingredients"
            ELSE IF f.instructions < 1
            THEN r.pc = "ai_parse" /\ r.reason = "Recipe has no instructions"
            ELSE r.pc = "returned" /\ r.outcome = "created_primary" /\ r.reason = None

C24_Witness ==
    /\ StepDone("complete")
    /\ last.fetch.ok
    /\ last.fetch.name_len = 3
    /\ last.fetch.ingredients = 0
    /\ last.fetch.instructions = 0
    /\ req[last.interaction].reason = "Recipe has no valid name"

\* how a run ends when the AI gives no usable recipe
AiFailureOutcome(r) == IF r.slug # None THEN "partial" ELSE "failed"

\* C25: AI data without a name or without ingredients counts as an AI failure:
\* no object is created from it and the run ends as it does when AI is not
\* configured, PartiallyCreated when it carries a primary reference and Failed
\* otherwise.
C25_AiMissingFieldsIsAiFailure ==
    (StepDone("ai_parse") /\ (last.ai = "missing_fields" \/ ~openai_api_key)) =>
        LET r == req[last.interaction]
        IN  /\ r.pc = "returned"
            /\ r.outcome = AiFailureOutcome(r)
            /\ r.ai_slug = None
            /\ \A k \in 1..Len(r.objects) : r.objects[k] # AiObject
            /\ \A k \in 1..Len(r.steps) : r.steps[k] # "ai_create"

C25_Witness ==
    /\ StepDone("ai_parse")
    /\ last.ai = "missing_fields"
    /\ openai_api_key
    /\ req[last.interaction].ai_called
    /\ req[last.interaction].slug = "r1"
    /\ req[last.interaction].outcome = "partial"

\* C26: AI data that was extracted is submitted as a new object: the step after
\* a successful extraction is the AI create, the create adds an object of its
\* own and leaves the primary reference and its object as they were, and the
\* outcome names the AI object; after an incomplete primary object and a
\* successful AI create the backend holds two distinct objects.
C26_AiCreatesNewObject ==
    /\ []((StepDone("ai_parse") /\ openai_api_key /\ last.ai = "ok") =>
            req[last.interaction].pc = "ai_create")
    /\ []((StepDone("ai_create") /\ last.created = "slug") =>
            LET r == req[last.interaction]
            IN  /\ r.outcome = "created_ai"
                /\ r.ai_slug = AiObject
                /\ r.ai_slug # r.slug
                /\ r.objects[Len(r.objects)] = AiObject
                /\ r.slug = "r1" => r.objects = <<"r1", AiObject>>)
    /\ [][\A i \in InteractionIds :
            req[i].pc = "ai_create" =>
                /\ req'[i].slug = req[i].slug
                /\ \A k \in 1..Len(req[i].objects) : req'[i].objects[k] = req[i].objects[k]]_vars

C26_Witness ==
    /\ StepDone("ai_create")
    /\ last.created = "slug"
    /\ req[last.interaction].slug = "r1"
    /\ req[last.interaction].reason = "Recipe has no instructions"
    /\ req[last.interaction].objects = <<"r1", AiObject>>
    /\ req[last.interaction].outcome = "created_ai"

StepOrder == <<"validate_url", "primary", "complete", "ai_parse", "ai_create">>

StepRank(step) == CHOOSE k \in 1..Len(StepOrder) : StepOrder[k] = step

\* C28: the steps of one import run in the order acknowledgement, address
\* validation, primary create, completeness check, AI extraction, AI create:
\* a step that ran was preceded by the steps the order puts before it (the
\* completeness check only exists after a primary create that returned a
\* reference), and no step ran, no backend object exists and the AI service was
\* not called unless the acknowledgement succeeded.
C28_StepsRunInFixedOrder ==
    \A i \in InteractionIds :
        LET st == req[i].steps
        IN  /\ (st # <<>> \/ req[i].objects # <<>> \/ req[i].ai_called) => req[i].ack = "ok"
            /\ \A k \in 1..Len(st) : \E n \in 1..Len(StepOrder) : st[k] = StepOrder[n]
            /\ \A k \in 1..(Len(st) - 1) : StepRank(st[k]) < StepRank(st[k + 1])
            /\ st # <<>> => st[1] = "validate_url"
            /\ Len(st) >= 2 => st[2] = "primary"
            /\ \A k \in 2..Len(st) : st[k] = "ai_create" => st[k - 1] = "ai_parse"

C28_Witness ==
    \E i \in InteractionIds :
        /\ req[i].ack = "ok"
        /\ req[i].steps = StepOrder
        /\ req[i].pc = "returned"

\* C27: tags are best-effort.  When the create request was answered with a
\* reference, create_recipe_from_url returns that reference whatever happened
\* to the tags (the recipe could not be read, no tag could be looked up or
\* created, the tag assignment was refused or raised): its result is the
\* result computed from the answer to the create request alone, which is all
\* the handler's primary step takes from it.
C27_TagsAreBestEffort ==
    client.pc = "returned" =>
        /\ client.result = create_recipe_from_url(client.resp)
        /\ (client.resp.status \in {200, 201} /\ IsQuoted(client.resp.body)) =>
               /\ client.result.kind = "created"
               /\ client.result.slug = StripQuotes(client.resp.body)

C27_Witness ==
    /\ client.pc = "returned"
    /\ client.result = Returned("r1")
    /\ mealie.recipe_tags = client.current_tags
    /\ client.tag_error = "ClientError"
    /\ last.op = "assign_tags"
    /\ last.patch = "raises"

\* C30: ensuring a tag is idempotent on the backend: no two tags of the
\* backend have the same name up to letter case, and a call for a name that a
\* tag of the backend already has, up to letter case, issues no create request.
C30_EnsureTagIsIdempotent ==
    /\ \A k, l \in 1..Len(mealie.tags) :
           Lower(mealie.tags[k]) = Lower(mealie.tags[l]) => k = l
    /\ (last.op = "ensure_tag" /\ last.existed) => ~last.posted

\* C31: the tag list sent with the PATCH of the recipe has no tag id twice,
\* has an entry for every tag the recipe had and for every ensured tag that
\* has an id, has no other entry, and the entry of an id that an ensured tag
\* has is the ensured one.
C31_MergedTagsOnePerId ==
    last.op = "assign_tags" =>
        LET m == last.update_data
            had == {client.current_tags[k] : k \in 1..Len(client.current_tags)}
            ens == {client.tag_objects[k].id : k \in 1..Len(client.tag_objects)} \ {0}
        IN  /\ \A k, l \in 1..Len(m) : m[k].id = m[l].id => k = l
            /\ {m[k].id : k \in 1..Len(m)} = had \cup ens
            /\ \A k \in 1..Len(m) :
                   m[k].src = IF m[k].id \in ens THEN "ensured" ELSE "recipe"

C31_Witness ==
    /\ last.op = "assign_tags"
    /\ Len(client.current_tags) = 2
    /\ \E k \in 1..Len(client.tag_objects) :
           client.tag_objects[k].id = client.current_tags[1]
    /\ \E k \in 1..Len(client.tag_objects) :
           /\ client.tag_objects[k].id # 0
           /\ \A l \in 1..2 : client.current_tags[l] # client.tag_objects[k].id
    /\ Len(last.update_data) = 3

\* C32: a tag name that could not be looked up or created is skipped and the
\* loop goes on: after a call that returned no tag the remaining names are
\* still to be ensured, the PATCH is only made when no name is left, it is
\* made whenever some tag was ensured, and it carries every ensured tag that
\* has an id, which a 2xx answer leaves assigned to the recipe.
C32_FailedTagIsSkipped ==
    /\ (last.op = "ensure_tag" /\ last.obj = NoTag) =>
           /\ \A k \in 1..Len(client.tag_objects) : client.tag_objects[k] # NoTag
           /\ client.todo # <<>> => client.pc = "ensure"
    /\ (last.op = "ensure_tag" /\ client.todo = <<>>) =>
           client.pc = (IF client.tag_objects = <<>> THEN "returned" ELSE "assign")
    /\ client.pc = "assign" => client.todo = <<>>
    /\ last.op = "assign_tags" =>
           /\ client.todo = <<>>
           /\ \A k \in 1..Len(client.tag_objects) :
                  client.tag_objects[k].id # 0 =>
                      /\ \E l \in 1..Len(last.update_data) :
                             last.update_data[l].id = client.tag_objects[k].id
                      /\ last.patch = "2xx" =>
                             \E l \in 1..Len(mealie.recipe_tags) :
                                 mealie.recipe_tags[l] = client.tag_objects[k].id

C32_Witness ==
    /\ last.op = "assign_tags"
    /\ last.patch = "2xx"
    /\ Len(client.tag_objects) = 1
    /\ client.tag_objects[1].name = "Verify"
    /\ client.tag_objects[1].id # 0
    /\ \E l \in 1..Len(mealie.recipe_tags) : mealie.recipe_tags[l] = client.tag_objects[1].id

\* a list has an entry that is not blank
HasText(items) == \E k \in 1..Len(items) : items[k] \notin {"", " "}

\* C33: with instructions and ingredients required, validate_recipe_data
\* answers (True, 'Recipe is valid') exactly for a recipe with an instruction
\* that is not blank, an ingredient that is not blank and a name that is not
\* blank; otherwise it answers False and names the first missing part, looking
\* at the instructions first, then the ingredients, then the title.
C33_ValidateRecipeData ==
    (/\ last.op = "validate_recipe_data"
     /\ last.require_instructions
     /\ last.require_ingredients) =>
        LET r == last.recipe_data
        IN  /\ last.result[1] <=> (/\ HasText(r.recipeInstructions)
                                   /\ HasText(r.recipeIngredient)
                                   /\ r.name \notin {"", " "})
            /\ last.result[2] =
                   IF ~HasText(r.recipeInstructions) THEN "Recipe is missing instructions"
                   ELSE IF ~HasText(r.recipeIngredient) THEN "Recipe is missing ingredients"
                   ELSE IF r.name \in {"", " "} THEN "Recipe is missing title"
                   ELSE "Recipe is valid"

C33_Witness ==
    /\ last.op = "validate_recipe_data"
    /\ last.require_instructions
    /\ last.require_ingredients
    /\ last.recipe_data.recipeInstructions = <<"text", " ">>
    /\ last.recipe_data.recipeIngredient = <<" ", "">>
    /\ last.recipe_data.name = " "
    /\ last.result = <<FALSE, "Recipe is missing ingredients">>

\* C34: a create request answered with status 400 makes
\* create_recipe_from_url raise a ValueError whose message starts with
\* 'Failed to create recipe'.
C34_BadRequestMessage ==
    (client.pc = "returned" /\ client.resp.status = 400) =>
        /\ client.result.kind = "ValueError"
        /\ client.result.message = "Failed to create recipe"

\* C35: a create request answered with status 201 makes
\* create_recipe_from_url return the recipe data of the answer, with its id
\* and its name, after exactly one POST request.
C35_SuccessReturnsRecipeData ==
    (client.pc = "returned" /\ client.resp.status = 201) =>
        /\ client.result.kind = "created"
        /\ {"id", "name"} \subseteq client.result.keys
        /\ client.posts = 1

\* C36: update_task_status with FAILED on a task that has attempts left after
\* the increment leaves next_retry as it was, so a task that was due stays due;
\* and a scan marks every FAILED task that has attempts left and is due as
\* RETRYING, at the time of the scan.
C36_FailedIsNotRearmed ==
    /\ [][(/\ last'.op = "update_task_status"
            /\ last'.status = FAILED
            /\ last'.found
            /\ get_task(tasks', last'.task_id).attempt <
                   get_task(tasks', last'.task_id).max_attempts) =>
               LET old == get_task(tasks, last'.task_id)
                   new == get_task(tasks', last'.task_id)
               IN  /\ new.next_retry = old.next_retry
                   /\ new.status = FAILED
                   /\ now >= old.next_retry => should_retry(new, now')]_vars
    /\ [][last'.op = "tick" =>
               /\ now' = now
               /\ \A k \in 1..Len(tasks) :
                      (/\ tasks[k].status = FAILED
                       /\ tasks[k].attempt < tasks[k].max_attempts
                       /\ now >= tasks[k].next_retry) =>
                          tasks'[k].status = RETRYING]_vars

C36_Witness ==
    /\ last.op = "tick"
    /\ \E k \in 1..Len(tasks) :
           /\ <<tasks[k].task_id, FAILED>> \in last.marked
           /\ tasks[k].status = RETRYING
           /\ tasks[k].attempt \in 1..(tasks[k].max_attempts - 1)
           /\ tasks[k].next_retry = FirstRetryDelay

\* C37: two handlers that ensure the same tag name at the same time never
\* both issue the create request: there are no two calls for one name, up to
\* letter case, whose lookups were both answered without the tag, the second
\* while the first had not created it yet, and which both sent the create
\* request.
C37_OneCreatePerName ==
    \A i, j \in InteractionIds :
        ~(/\ i # j
          /\ ensuring[j].after = i
          /\ ensuring[i].lookup = "ok"
          /\ ensuring[j].lookup = "ok"
          /\ Lower(ensuring[i].name) = Lower(ensuring[j].name)
          /\ ensuring[i].posted
          /\ ensuring[j].posted)

\* C38: when the recipe cannot be fetched for the completeness check, the run
\* goes on to the AI step with the reference it has and with a validation
\* error as the reason; it does not end there, and it never ends as created by
\* the primary parse or as aborted by an error.
C38_FailedFetchIsIncomplete ==
    /\ (StepDone("complete") /\ ~last.fetch.ok) =>
           LET r == req[last.interaction]
           IN  /\ r.pc = "ai_parse"
               /\ r.outcome = None
               /\ r.reason = "Error validating recipe"
               /\ r.slug \notin {None, ""}
    /\ \A i \in InteractionIds :
           (req[i].reason = "Error validating recipe" /\ req[i].pc = "returned") =>
               /\ req[i].outcome \in {"partial", "created_ai", "failed_ai_not_persisted"}
               /\ "ai_parse" \in {req[i].steps[k] : k \in 1..Len(req[i].steps)}

C38_Witness ==
    \E i \in InteractionIds :
        /\ req[i].reason = "Error validating recipe"
        /\ req[i].slug = "r1"
        /\ req[i].pc = "returned"
        /\ req[i].outcome = "partial"
        /\ req[i].steps = <<"validate_url", "primary", "complete", "ai_parse">>

\* C39: a redrive of the handler (is_retry) whose acknowledgement fails leaves
\* the retry queue as it was: no task is added, and no task, the redriven one
\* included, changes.
C39_FailedRedriveLeavesQueue ==
    [][(last'.op = "save_recipe" /\ last'.is_retry /\ last'.ack # "ok") =>
           tasks' = tasks]_vars

C39_Witness ==
    /\ last.op = "save_recipe"
    /\ last.is_retry
    /\ last.ack # "ok"
    /\ \E k \in 1..Len(tasks) :
           /\ tasks[k].task_id = TaskIdOf(last.interaction)
           /\ tasks[k].status = RETRYING
           /\ tasks[k].next_retry <= now
====
